---- MODULE Spec2Model ----
(***************************************************************************)
(* Reservation availability and lifecycle engine of the South Side Brews   *)
(* backend: the Reservation model (statics.checkAvailability and the       *)
(* lifecycle methods) and the reservation controller's request handlers.   *)
(*                                                                         *)
(* Dates are calendar days (0, 1, ...): the server is taken to run in UTC  *)
(* and the date of a request to be a date-only ISO string, so the UTC day  *)
(* range of the query, the ISO date string of the blocked-date test and    *)
(* the local day of setHours() all name the same day.  A time of day is    *)
(* the HH:MM string itself, kept as its sequence of characters (a digit is *)
(* its value, ':' is Colon), and is parsed the way the code parses it.     *)
(* Instants (the clock, the audit stamps) are minutes since day 0, 00:00.  *)
(***************************************************************************)
EXTENDS Integers, Sequences, FiniteSets, Bags, TLC

VARIABLES reservations, settings, now, response, inflight, users, shifts,
          shiftResponse, settingsCollection

vars == <<reservations, settings, now, response, inflight, users, shifts,
          shiftResponse, settingsCollection>>

\* The state of the shift endpoints
shiftVars == <<shifts, shiftResponse>>

\* ------------------------------------------------------------------------
\* Bounds of the model
\* ------------------------------------------------------------------------
MaxRes == 2        \* reservations the collection may hold (request handlers)
MaxExisting == 2   \* reservations already stored when checkAvailability is applied
MaxNotes == 1      \* staff notes added to one reservation through the notes endpoint
MaxInflight == 2   \* createReservation requests in flight at once
MaxShifts == 2     \* shifts the collection may hold (shift endpoints)
MaxStoredShifts == 2   \* shifts already stored when checkConflicts is applied

\* ------------------------------------------------------------------------
\* Program constants
\* ------------------------------------------------------------------------
DefaultMaxCapacity == 50
DefaultDiningDuration == 90
MinutesPerHour == 60
CancelCutoffHours == 2
CreatePoints == 10
CompletePoints == 20
MinAdvanceHours == 1
MinutesPerDay == 24 * MinutesPerHour

\* The clock of the model: day 0, from 09:00 to 10:00 in one step
StartOfClock == 9 * MinutesPerHour
EndOfClock == 10 * MinutesPerHour
TickMinutes == MinutesPerHour

NoValue == 0 - 1          \* an unset field (undefined)
Colon == 10               \* the character ':' (sorts after every digit)

\* ------------------------------------------------------------------------
\* Time strings
\* ------------------------------------------------------------------------
\* "8:00" and "9:00", written with a one-digit hour
T800 == <<8, Colon, 0, 0>>
T900 == <<9, Colon, 0, 0>>
T0000 == <<0, 0, Colon, 0, 0>>
T0900 == <<0, 9, Colon, 0, 0>>
T0930 == <<0, 9, Colon, 3, 0>>
T1000 == <<1, 0, Colon, 0, 0>>
T1030 == <<1, 0, Colon, 3, 0>>
T1100 == <<1, 1, Colon, 0, 0>>
T1130 == <<1, 1, Colon, 3, 0>>
T1200 == <<1, 2, Colon, 0, 0>>
T1230 == <<1, 2, Colon, 3, 0>>
T1300 == <<1, 3, Colon, 0, 0>>
T1330 == <<1, 3, Colon, 3, 0>>
T1400 == <<1, 4, Colon, 0, 0>>
T1430 == <<1, 4, Colon, 3, 0>>
T1600 == <<1, 6, Colon, 0, 0>>
T1700 == <<1, 7, Colon, 0, 0>>
T1730 == <<1, 7, Colon, 3, 0>>
T1800 == <<1, 8, Colon, 0, 0>>
T1830 == <<1, 8, Colon, 3, 0>>
T1900 == <<1, 9, Colon, 0, 0>>
T1930 == <<1, 9, Colon, 3, 0>>
T2000 == <<2, 0, Colon, 0, 0>>
T2030 == <<2, 0, Colon, 3, 0>>
T2100 == <<2, 1, Colon, 0, 0>>
T2330 == <<2, 3, Colon, 3, 0>>

RECURSIVE ToNumber(_)
ToNumber(ds) ==
    IF Len(ds) = 0 THEN 0
    ELSE 10 * ToNumber(SubSeq(ds, 1, Len(ds) - 1)) + ds[Len(ds)]

\* const [hours, minutes] = time.split(":").map(Number); hours * 60 + minutes
TimeInMinutes(time) ==
    LET c == CHOOSE i \in 1..Len(time) : time[i] = Colon
        hours == ToNumber(SubSeq(time, 1, c - 1))
        minutes == ToNumber(SubSeq(time, c + 1, Len(time)))
    IN  hours * MinutesPerHour + minutes

Abs(x) == IF x < 0 THEN 0 - x ELSE x

\* ------------------------------------------------------------------------
\* Reservation documents
\* ------------------------------------------------------------------------
Statuses == {"pending", "confirmed", "seated", "completed", "cancelled", "no-show"}
ActiveStatuses == {"pending", "confirmed", "seated"}
TerminalStatuses == {"completed", "cancelled", "no-show"}

NoUser == "guest"

\* Reservation.create({user, date, time, partySize, ...}): the schema defaults
NewReservation(user, date, time, partySize) ==
    [user |-> user, date |-> date, time |-> time, partySize |-> partySize,
     status |-> "pending", tableNumber |-> NoValue, checkedInAt |-> NoValue,
     completedAt |-> NoValue, cancellationReason |-> "", cancelledAt |-> NoValue,
     cancelledBy |-> "", notes |-> <<>>]

\* virtual dateTime: new Date(this.date).setHours(hours, minutes, 0, 0)
DateTime(date, time) == date * MinutesPerDay + TimeInMinutes(time)

\* ------------------------------------------------------------------------
\* Settings.reservations
\* ------------------------------------------------------------------------
NoSettings ==
    [present |-> FALSE, maxCapacity |-> NoValue, diningDuration |-> NoValue,
     blockedDates |-> {}, blockedSlots |-> [d \in {} |-> {}],
     slotCapacityOverrides |-> [k \in {} |-> 0]]

\* a || b on numbers
OrDefault(v, d) == IF v = 0 \/ v = NoValue THEN d ELSE v

SlotKey(date, time) == <<date, time>>

RECURSIVE SumPartySize(_, _)
SumPartySize(res, ids) ==
    IF ids = {} THEN 0
    ELSE LET i == CHOOSE j \in ids : TRUE
         IN  res[i].partySize + SumPartySize(res, ids \ {i})

\* Mutant: the status filter also lets completed reservations through
ExistingReservationsWithCompleted(res, date) ==
    {i \in DOMAIN res : res[i].date = date
                         /\ res[i].status \in ActiveStatuses \cup {"completed"}}

\* this.find({date: {$gte: startOfDay, $lte: endOfDay}, status: {$in: [...]}})
ExistingReservations(res, date) ==
    {i \in DOMAIN res : res[i].date = date /\ res[i].status \in ActiveStatuses}

\* Mutant: the window test with <= (windows that merely touch count as overlapping)
WithinDiningWindowClosed(resTime, requestedTime, diningDuration) ==
    Abs(TimeInMinutes(resTime) - TimeInMinutes(requestedTime)) <= diningDuration

\* the filter of the reduce: Math.abs(resTime - requestedTime) < diningDuration
WithinDiningWindow(resTime, requestedTime, diningDuration) ==
    Abs(TimeInMinutes(resTime) - TimeInMinutes(requestedTime)) < diningDuration

\* Mutant: the slot is offered only when the party fills it exactly
IsAvailableExactFit(reservedCapacity, partySize, slotMaxCapacity) ==
    reservedCapacity + partySize = slotMaxCapacity

\* Mutant: the party asking for the slot is not counted
IsAvailableIgnoringParty(reservedCapacity, partySize, slotMaxCapacity) ==
    reservedCapacity <= slotMaxCapacity

\* Mutant: the existing reservations are ignored
IsAvailableAlways(reservedCapacity, partySize, slotMaxCapacity) ==
    partySize <= slotMaxCapacity

\* reservedCapacity + partySize <= slotMaxCapacity
IsAvailable(reservedCapacity, partySize, slotMaxCapacity) ==
    reservedCapacity + partySize <= slotMaxCapacity

BlockedResult ==
    [available |-> FALSE, remainingCapacity |-> 0, reservedCapacity |-> 0,
     maxCapacity |-> 0, conflictingReservations |-> 0, blocked |-> TRUE]

\* Mutant: the blocked-date test only applies when no slot of the date is blocked
IsDateBlockedUnlessSlots(st, date) ==
    /\ st.present
    /\ date \in st.blockedDates
    /\ date \notin DOMAIN st.blockedSlots

\* blockedDates.some((d) => isoDate(d) === dateString)
IsDateBlocked(st, date) ==
    /\ st.present
    /\ date \in st.blockedDates

\* (blockedSlots.get(dateString) || []).includes(time)
IsSlotBlocked(st, date, time) ==
    /\ st.present
    /\ date \in DOMAIN st.blockedSlots
    /\ time \in st.blockedSlots[date]

\* Mutant: the override read with || (an override of 0 falls back to the global capacity)
SlotMaxCapacityTruthy(st, date, time) ==
    LET maxCapacity == IF ~st.present THEN DefaultMaxCapacity
                       ELSE OrDefault(st.maxCapacity, DefaultMaxCapacity)
    IN  IF st.present /\ SlotKey(date, time) \in DOMAIN st.slotCapacityOverrides
        THEN OrDefault(st.slotCapacityOverrides[SlotKey(date, time)], maxCapacity)
        ELSE maxCapacity

\* slotCapacityOverrides.get(slotKey) !== undefined ? that : maxCapacity
SlotMaxCapacity(st, date, time) ==
    LET maxCapacity == IF ~st.present THEN DefaultMaxCapacity
                       ELSE OrDefault(st.maxCapacity, DefaultMaxCapacity)
    IN  IF st.present /\ SlotKey(date, time) \in DOMAIN st.slotCapacityOverrides
        THEN st.slotCapacityOverrides[SlotKey(date, time)]
        ELSE maxCapacity

DiningDuration(st) ==
    IF ~st.present THEN DefaultDiningDuration
    ELSE OrDefault(st.diningDuration, DefaultDiningDuration)

\* Mutant: remainingCapacity without Math.max(0, ...)
CheckAvailabilityUnclamped(res, st, date, time, partySize) ==
    LET existing == ExistingReservations(res, date)
        diningDuration == DiningDuration(st)
        slotMaxCapacity == SlotMaxCapacity(st, date, time)
        conflicting == {i \in existing :
                          WithinDiningWindow(res[i].time, time, diningDuration)}
        reservedCapacity == SumPartySize(res, conflicting)
    IN  IF IsDateBlocked(st, date) THEN BlockedResult
        ELSE IF IsSlotBlocked(st, date, time) THEN BlockedResult
        ELSE [available |-> IsAvailable(reservedCapacity, partySize, slotMaxCapacity),
              remainingCapacity |-> slotMaxCapacity - reservedCapacity,
              reservedCapacity |-> reservedCapacity,
              maxCapacity |-> slotMaxCapacity,
              conflictingReservations |-> Cardinality(conflicting),
              blocked |-> FALSE]

CheckAvailability(res, st, date, time, partySize) ==
    LET existing == ExistingReservations(res, date)
        diningDuration == DiningDuration(st)
        slotMaxCapacity == SlotMaxCapacity(st, date, time)
        conflicting == {i \in existing :
                          WithinDiningWindow(res[i].time, time, diningDuration)}
        reservedCapacity == SumPartySize(res, conflicting)
    IN  IF IsDateBlocked(st, date) THEN BlockedResult
        ELSE IF IsSlotBlocked(st, date, time) THEN BlockedResult
        ELSE [available |-> IsAvailable(reservedCapacity, partySize, slotMaxCapacity),
              remainingCapacity |->
                  IF slotMaxCapacity - reservedCapacity > 0
                  THEN slotMaxCapacity - reservedCapacity ELSE 0,
              reservedCapacity |-> reservedCapacity,
              maxCapacity |-> slotMaxCapacity,
              conflictingReservations |-> Cardinality(conflicting),
              blocked |-> FALSE]

\* ------------------------------------------------------------------------
\* HTTP responses
\* ------------------------------------------------------------------------
\* The user accounts: loyaltyPoints, totalReservations and the entries of
\* pointsHistory (amount, source, relatedId), kept as a bag
Accounts == {"u1"}

NoPoints ==
    [u \in Accounts |-> [loyaltyPoints |-> 0, totalReservations |-> 0,
                         pointsHistory |-> EmptyBag]]

\* User.findById(id), then user.addLoyaltyPoints(points, source, _, relatedId)
AddLoyaltyPoints(us, id, points, source, relatedId) ==
    IF id \notin DOMAIN us THEN us
    ELSE [us EXCEPT
             ![id].loyaltyPoints = @ + points,
             ![id].pointsHistory =
                 @ (+) SetToBag({[amount |-> points, source |-> source,
                                  relatedId |-> relatedId]})]

\* The shifts collection (documents by _id) and the last answer of a shift
\* endpoint: the request it answered and the conflicts it listed
NoId == 0
NoShifts == [id \in {} |-> 0]

ShiftResponse(op, code, employee, date, startTime, endTime, exclude, found) ==
    [op |-> op, code |-> code, employee |-> employee, date |-> date,
     startTime |-> startTime, endTime |-> endTime, exclude |-> exclude,
     conflicts |-> found]

NoShiftResponse == ShiftResponse("none", 0, "", NoValue, <<>>, <<>>, NoId, {})

NoResult ==
    [available |-> FALSE, remainingCapacity |-> NoValue, reservedCapacity |-> NoValue,
     maxCapacity |-> NoValue, conflictingReservations |-> NoValue, blocked |-> FALSE]

Response(op, code, date, time, partySize, result) ==
    [op |-> op, code |-> code, date |-> date, time |-> time,
     partySize |-> partySize, result |-> result, availableSlots |-> <<>>]

NoResponse == Response("none", 0, NoValue, <<>>, NoValue, NoResult)

\* ------------------------------------------------------------------------
\* Inputs
\* ------------------------------------------------------------------------
Dates == {0, 1}
PartySizes == {1, 2}
AvailTimes == {T1200, T1300, T1330}

\* Settings documents the availability check is applied to.
\* SettingsB: date 1 is blocked (and has a blocked slot and an override under
\* it); on date 0 the slot 13:00 is blocked and carries an override, 12:00 is
\* overridden to 0 and 13:30 has the global capacity.
SettingsB ==
    [present |-> TRUE, maxCapacity |-> 3, diningDuration |-> 60,
     blockedDates |-> {1},
     blockedSlots |-> (0 :> {T1300}) @@ (1 :> {T1200}),
     slotCapacityOverrides |->
         (SlotKey(0, T1300) :> 5) @@ (SlotKey(0, T1200) :> 0) @@ (SlotKey(1, T1200) :> 5)]

\* SettingsC: nothing is blocked; 12:00 on date 0 is overridden above the
\* global capacity and 13:00 on date 1 below it.
SettingsC ==
    [present |-> TRUE, maxCapacity |-> 3, diningDuration |-> 90,
     blockedDates |-> {},
     blockedSlots |-> [d \in {} |-> {}],
     slotCapacityOverrides |-> (SlotKey(0, T1200) :> 4) @@ (SlotKey(1, T1300) :> 1)]

AvailSettings == {NoSettings, SettingsB, SettingsC}

\* A stored reservation in a given status, with the stamps that status carries
StoredReservation(date, time, partySize, status) ==
    [NewReservation("u1", date, time, partySize) EXCEPT
        !.status = status,
        !.tableNumber = IF status \in {"seated", "completed"} THEN 1 ELSE NoValue,
        !.checkedInAt = IF status \in {"seated", "completed"} THEN StartOfClock ELSE NoValue,
        !.completedAt = IF status = "completed" THEN StartOfClock ELSE NoValue,
        !.cancelledAt = IF status = "cancelled" THEN StartOfClock ELSE NoValue,
        !.cancelledBy = IF status = "cancelled" THEN "s1" ELSE ""]

\* Documents of date 0 in every status, time and party size, and two of date 1
StoredReservations ==
    {StoredReservation(0, t, p, s) : t \in AvailTimes, p \in PartySizes, s \in Statuses}
    \cup {StoredReservation(1, T1200, 2, s) : s \in {"confirmed", "cancelled"}}

\* The collections the check is applied to.  The check reads the collection as
\* a set (a filter and a sum), so one order of insertion stands for each
\* multiset of documents: the one sorted by (date, time, partySize, status).
StatusOrder == <<"pending", "confirmed", "seated", "completed", "cancelled", "no-show">>

StatusIndex(status) == CHOOSE i \in 1..Len(StatusOrder) : StatusOrder[i] = status

Rank(r) ==
    ((r.date * MinutesPerDay + TimeInMinutes(r.time)) * 100 + r.partySize) * 10
        + StatusIndex(r.status)

RECURSIVE SortedCollections(_)
SortedCollections(n) ==
    IF n = 0 THEN {<<>>}
    ELSE LET shorter == SortedCollections(n - 1)
         IN  shorter \cup
             {Append(c, r) : <<c, r>> \in
                 {x \in shorter \X StoredReservations :
                     /\ Len(x[1]) = n - 1
                     /\ Len(x[1]) > 0 => Rank(x[1][Len(x[1])]) <= Rank(x[2])}}

ExistingCollections == SortedCollections(MaxExisting)

\* Mutant: the check holds the seats it found (it stores a pending reservation)
CheckAvailabilityRequestHolding(date, time, partySize) ==
    LET result == CheckAvailability(reservations, settings, date, time, partySize)
    IN  /\ response' =
              IF partySize = 0
              THEN Response("checkAvailability", 400, date, time, partySize, NoResult)
              ELSE Response("checkAvailability", 200, date, time, partySize, result)
        /\ reservations' =
              IF partySize # 0 /\ result.available /\ Len(reservations) < MaxRes
              THEN Append(reservations, NewReservation(NoUser, date, time, partySize))
              ELSE reservations
        /\ UNCHANGED <<settings, now, inflight, users, shiftVars, settingsCollection>>

\* ------------------------------------------------------------------------
\* POST /api/reservations/check-availability
\* ------------------------------------------------------------------------
CheckAvailabilityRequest(date, time, partySize) ==
    /\ response' =
          IF partySize = 0
          THEN Response("checkAvailability", 400, date, time, partySize, NoResult)
          ELSE Response("checkAvailability", 200, date, time, partySize,
                        CheckAvailability(reservations, settings, date, time, partySize))
    /\ UNCHANGED <<reservations, settings, now, inflight, users, shiftVars, settingsCollection>>

\* ------------------------------------------------------------------------
\* GET /api/reservations/available-slots
\* ------------------------------------------------------------------------
AllSlots ==
    <<T1100, T1130, T1200, T1230, T1300, T1330, T1400, T1430, T1700, T1730,
      T1800, T1830, T1900, T1930, T2000, T2030, T2100>>

\* if (isAvailable): isAvailable is the object checkAvailability returns, and
\* an object is truthy
Truthy(result) == TRUE

\* the loop over allSlots
RECURSIVE SlotsOffered(_, _, _, _, _)
SlotsOffered(res, st, date, size, slots) ==
    IF slots = <<>> THEN <<>>
    ELSE LET isAvailable == CheckAvailability(res, st, date, Head(slots), size)
             rest == SlotsOffered(res, st, date, size, Tail(slots))
         IN  IF Truthy(isAvailable) THEN <<Head(slots)>> \o rest ELSE rest

\* partySize NoValue: the query carries no partySize
GetAvailableSlots(date, partySize) ==
    /\ response' =
          IF partySize = NoValue
          THEN Response("availableSlots", 400, date, <<>>, partySize, NoResult)
          ELSE [Response("availableSlots", 200, date, <<>>, partySize, NoResult)
                   EXCEPT !.availableSlots =
                       SlotsOffered(reservations, settings, date, partySize, AllSlots)]
    /\ UNCHANGED <<reservations, settings, now, inflight, users, shiftVars, settingsCollection>>

\* ------------------------------------------------------------------------
\* The availability check applied to stored collections and settings
\* ------------------------------------------------------------------------
InitAvail ==
    /\ reservations \in ExistingCollections
    /\ settings \in AvailSettings
    /\ now = StartOfClock
    /\ response = NoResponse
    /\ inflight = <<>>
    /\ users = NoPoints
    /\ shifts = NoShifts
    /\ shiftResponse = NoShiftResponse
    /\ settingsCollection = <<>>

NextAvail ==
    \/ \E d \in Dates, t \in AvailTimes, p \in PartySizes :
          CheckAvailabilityRequest(d, t, p)
    \/ CheckAvailabilityRequest(0, T1200, 0)

SpecAvail == InitAvail /\ [][NextAvail]_vars

\* The available-slots endpoint applied to the same collections and settings
NextSlots ==
    \E d \in Dates, p \in PartySizes \cup {NoValue} : GetAvailableSlots(d, p)

SpecSlots == InitAvail /\ [][NextSlots]_vars

\* ------------------------------------------------------------------------
\* The request handlers of the reservation controller, one request at a time
\* ------------------------------------------------------------------------
\* The slots requests name: day 0 at 00:00 (past), 09:30 (less than an hour
\* ahead at 09:00), 12:00, 13:00 and 23:30, and day 1 at 00:00
BookingSlots ==
    {<<0, T0000>>, <<0, T0930>>, <<0, T1200>>, <<0, T1300>>, <<0, T2330>>, <<1, T0000>>}
CreateUsers == {"u1"}
StaffUser == "s1"
TableNumbers == {0, 1}
NoteContents == {"", "called guest"}
CancelReason == "plans changed"
NoShowNote == "Marked as no-show by staff"

\* The settings the handlers run under: capacity 3, a dining window of 90
\* minutes, nothing blocked and no override
SettingsPlain ==
    [present |-> TRUE, maxCapacity |-> 3, diningDuration |-> DefaultDiningDuration,
     blockedDates |-> {},
     blockedSlots |-> [d \in {} |-> {}],
     slotCapacityOverrides |-> [k \in {} |-> 0]]

Exists(id) == id \in DOMAIN reservations

Reply(op, code) == Response(op, code, NoValue, <<>>, NoValue, NoResult)

\* Mutant: only a date-time that has passed is refused
TooSoonOnlyPast(date, time) == DateTime(date, time) <= now

\* reservationDateTime <= now, or reservationDateTime < now + 1 hour
TooSoon(date, time) ==
    \/ DateTime(date, time) <= now
    \/ DateTime(date, time) < now + MinAdvanceHours * MinutesPerHour

\* POST /api/reservations
CreateReservation(user, date, time, partySize) ==
    /\ LET availabilityResult ==
               CheckAvailability(reservations, settings, date, time, partySize)
       IN  IF TooSoon(date, time)
           THEN /\ response' = Reply("create", 400)
                /\ UNCHANGED <<reservations, users>>
           ELSE IF ~availabilityResult.available
           THEN /\ response' = Response("create", 400, NoValue, <<>>, NoValue,
                                        availabilityResult)
                /\ UNCHANGED <<reservations, users>>
           ELSE /\ Len(reservations) < MaxRes
                /\ reservations' =
                      Append(reservations, NewReservation(user, date, time, partySize))
                /\ users' = AddLoyaltyPoints(users, user, CreatePoints, "bonus", NoValue)
                /\ response' = Reply("create", 201)
    /\ UNCHANGED <<settings, now, inflight, shiftVars, settingsCollection>>

\* Mutant: a cancellation exactly two hours ahead is let through
CanBeCancelledAtCutoff(r) ==
    /\ r.status \notin TerminalStatuses
    /\ DateTime(r.date, r.time) - now >= CancelCutoffHours * MinutesPerHour

\* Mutant: only the two-hour cutoff is looked at
CanBeCancelledAnyStatus(r) ==
    DateTime(r.date, r.time) - now > CancelCutoffHours * MinutesPerHour

\* reservationSchema.methods.canBeCancelled
CanBeCancelled(r) ==
    /\ r.status \notin TerminalStatuses
    /\ DateTime(r.date, r.time) - now > CancelCutoffHours * MinutesPerHour

\* PATCH /api/reservations/:id/confirm
ConfirmReservation(id) ==
    /\ IF ~Exists(id)
       THEN /\ response' = Reply("confirm", 404)
            /\ UNCHANGED reservations
       ELSE IF reservations[id].status # "pending"
       THEN /\ response' = Reply("confirm", 400)
            /\ UNCHANGED reservations
       ELSE /\ reservations' = [reservations EXCEPT ![id].status = "confirmed"]
            /\ response' = Reply("confirm", 200)
    /\ UNCHANGED <<settings, now, inflight, users, shiftVars, settingsCollection>>

\* Mutant: the table is assigned before the status is looked at
CheckInReservationEager(id, tableNumber) ==
    /\ IF tableNumber = 0 \/ ~Exists(id)
       THEN /\ response' = Reply("checkIn", 400)
            /\ UNCHANGED reservations
       ELSE IF reservations[id].status # "confirmed"
       THEN /\ reservations' = [reservations EXCEPT ![id].tableNumber = tableNumber]
            /\ response' = Reply("checkIn", 400)
       ELSE /\ reservations' = [reservations EXCEPT ![id].status = "seated",
                                                    ![id].tableNumber = tableNumber,
                                                    ![id].checkedInAt = now]
            /\ response' = Reply("checkIn", 200)
    /\ UNCHANGED <<settings, now, inflight, users, shiftVars, settingsCollection>>

\* PATCH /api/reservations/:id/checkin
CheckInReservation(id, tableNumber) ==
    /\ IF tableNumber = 0
       THEN /\ response' = Reply("checkIn", 400)
            /\ UNCHANGED reservations
       ELSE IF ~Exists(id)
       THEN /\ response' = Reply("checkIn", 404)
            /\ UNCHANGED reservations
       ELSE IF reservations[id].status # "confirmed"
       THEN /\ response' = Reply("checkIn", 400)
            /\ UNCHANGED reservations
       ELSE /\ reservations' = [reservations EXCEPT ![id].status = "seated",
                                                    ![id].tableNumber = tableNumber,
                                                    ![id].checkedInAt = now]
            /\ response' = Reply("checkIn", 200)
    /\ UNCHANGED <<settings, now, inflight, users, shiftVars, settingsCollection>>

\* Mutant: the completion points are awarded before the status is looked at
CompleteReservationAwardFirst(id) ==
    /\ users' = AddLoyaltyPoints(users, reservations[id].user,
                                 CompletePoints, "reservation", id)
    /\ IF reservations[id].status # "seated"
       THEN /\ response' = Reply("complete", 400)
            /\ UNCHANGED reservations
       ELSE /\ reservations' = [reservations EXCEPT ![id].status = "completed",
                                                    ![id].completedAt = now]
            /\ response' = Reply("complete", 200)
    /\ UNCHANGED <<settings, now, inflight, shiftVars, settingsCollection>>

\* user.totalReservations = (user.totalReservations || 0) + 1
CountReservation(us, id) ==
    IF id \notin DOMAIN us THEN us
    ELSE [us EXCEPT ![id].totalReservations = @ + 1]

\* PATCH /api/reservations/:id/complete
CompleteReservation(id) ==
    /\ IF ~Exists(id)
       THEN /\ response' = Reply("complete", 404)
            /\ UNCHANGED <<reservations, users>>
       ELSE IF reservations[id].status # "seated"
       THEN /\ response' = Reply("complete", 400)
            /\ UNCHANGED <<reservations, users>>
       ELSE /\ reservations' = [reservations EXCEPT ![id].status = "completed",
                                                    ![id].completedAt = now]
            /\ users' = CountReservation(
                            AddLoyaltyPoints(users, reservations[id].user,
                                             CompletePoints, "reservation", id),
                            reservations[id].user)
            /\ response' = Reply("complete", 200)
    /\ UNCHANGED <<settings, now, inflight, shiftVars, settingsCollection>>

\* Mutant: the cancellation is not stamped with its time
CancelReservationUnstamped(id, reason, cancelledBy) ==
    /\ IF ~Exists(id)
       THEN /\ response' = Reply("cancel", 404)
            /\ UNCHANGED reservations
       ELSE IF ~CanBeCancelled(reservations[id])
       THEN /\ response' = Reply("cancel", 400)
            /\ UNCHANGED reservations
       ELSE /\ reservations' = [reservations EXCEPT ![id].status = "cancelled",
                                                    ![id].cancellationReason = reason,
                                                    ![id].cancelledBy = cancelledBy]
            /\ response' = Reply("cancel", 200)
    /\ UNCHANGED <<settings, now, inflight, users, shiftVars, settingsCollection>>

\* PATCH /api/reservations/:id/cancel
CancelReservation(id, reason, cancelledBy) ==
    /\ IF ~Exists(id)
       THEN /\ response' = Reply("cancel", 404)
            /\ UNCHANGED reservations
       ELSE IF ~CanBeCancelled(reservations[id])
       THEN /\ response' = Reply("cancel", 400)
            /\ UNCHANGED reservations
       ELSE /\ reservations' = [reservations EXCEPT ![id].status = "cancelled",
                                                    ![id].cancellationReason = reason,
                                                    ![id].cancelledAt = now,
                                                    ![id].cancelledBy = cancelledBy]
            /\ response' = Reply("cancel", 200)
    /\ UNCHANGED <<settings, now, inflight, users, shiftVars, settingsCollection>>

\* Mutant: the no-show note replaces the notes instead of being pushed
MarkNoShowReplacingNotes(id, user) ==
    /\ IF ~Exists(id)
       THEN /\ response' = Reply("noShow", 404)
            /\ UNCHANGED reservations
       ELSE IF reservations[id].status \notin {"confirmed", "seated"}
       THEN /\ response' = Reply("noShow", 400)
            /\ UNCHANGED reservations
       ELSE /\ reservations' =
                  [reservations EXCEPT
                      ![id].status = "no-show",
                      ![id].notes = <<[content |-> NoShowNote,
                                       addedBy |-> user, addedAt |-> now]>>]
            /\ response' = Reply("noShow", 200)
    /\ UNCHANGED <<settings, now, inflight, users, shiftVars, settingsCollection>>

\* PATCH /api/reservations/:id/no-show
MarkNoShow(id, user) ==
    /\ IF ~Exists(id)
       THEN /\ response' = Reply("noShow", 404)
            /\ UNCHANGED reservations
       ELSE IF reservations[id].status \notin {"confirmed", "seated"}
       THEN /\ response' = Reply("noShow", 400)
            /\ UNCHANGED reservations
       ELSE /\ reservations' =
                  [reservations EXCEPT
                      ![id].status = "no-show",
                      ![id].notes = Append(@, [content |-> NoShowNote,
                                               addedBy |-> user, addedAt |-> now])]
            /\ response' = Reply("noShow", 200)
    /\ UNCHANGED <<settings, now, inflight, users, shiftVars, settingsCollection>>

\* The notes of a reservation that came through the notes endpoint
StaffNotes(r) == {k \in DOMAIN r.notes : r.notes[k].content # NoShowNote}

\* POST /api/reservations/:id/notes
AddReservationNote(id, content, user) ==
    /\ Exists(id) => Cardinality(StaffNotes(reservations[id])) < MaxNotes
    /\ IF content = ""
       THEN /\ response' = Reply("addNote", 400)
            /\ UNCHANGED reservations
       ELSE IF ~Exists(id)
       THEN /\ response' = Reply("addNote", 404)
            /\ UNCHANGED reservations
       ELSE /\ reservations' =
                  [reservations EXCEPT
                      ![id].notes = Append(@, [content |-> content,
                                               addedBy |-> user, addedAt |-> now])]
            /\ response' = Reply("addNote", 200)
    /\ UNCHANGED <<settings, now, inflight, users, shiftVars, settingsCollection>>

\* PUT /api/reservations/:id (the body carries date, time and partySize: the
\* route validates it with validateReservation).  isAvailable is the result
\* object of checkAvailability, so !isAvailable is never true.
UpdateReservation(id, date, time, partySize) ==
    /\ IF ~Exists(id)
       THEN /\ response' = Reply("update", 404)
            /\ UNCHANGED reservations
       ELSE IF reservations[id].status \in TerminalStatuses
       THEN /\ response' = Reply("update", 400)
            /\ UNCHANGED reservations
       ELSE /\ reservations' = [reservations EXCEPT ![id].date = date,
                                                    ![id].time = time,
                                                    ![id].partySize = partySize]
            /\ response' = Reply("update", 200)
    /\ UNCHANGED <<settings, now, inflight, users, shiftVars, settingsCollection>>

\* Time passes
Tick ==
    /\ now + TickMinutes <= EndOfClock
    /\ now' = now + TickMinutes
    /\ UNCHANGED <<reservations, settings, response, inflight, users, shiftVars, settingsCollection>>

Ids == DOMAIN reservations

Init ==
    /\ reservations = <<>>
    /\ settings = SettingsPlain
    /\ now = StartOfClock
    /\ response = NoResponse
    /\ inflight = <<>>
    /\ users = NoPoints
    /\ shifts = NoShifts
    /\ shiftResponse = NoShiftResponse
    /\ settingsCollection = <<>>

Lifecycle ==
    \/ \E id \in Ids : ConfirmReservation(id)
    \/ \E id \in Ids, n \in TableNumbers : CheckInReservation(id, n)
    \/ \E id \in Ids : CompleteReservation(id)
    \/ \E id \in Ids : CancelReservation(id, CancelReason, StaffUser)
    \/ \E id \in Ids : MarkNoShow(id, StaffUser)

CreateIn(slots) ==
    \E u \in CreateUsers, slot \in slots, p \in PartySizes :
        CreateReservation(u, slot[1], slot[2], p)

\* Every endpoint that writes a reservation, at 09:00 of day 0, on the slots of
\* that day at 09:30 (half an hour ahead), 12:00 and 13:00
LifeSlots == {<<0, T0930>>, <<0, T1200>>, <<0, T1300>>}

Next ==
    \/ CreateIn(LifeSlots)
    \/ Lifecycle
    \/ \E id \in Ids, c \in NoteContents : AddReservationNote(id, c, StaffUser)
    \/ \E id \in Ids, slot \in LifeSlots, p \in PartySizes :
          UpdateReservation(id, slot[1], slot[2], p)

Spec == Init /\ [][Next]_vars

\* createReservation and the lifecycle requests only (no update, no notes)
NextBooking ==
    \/ CreateIn(BookingSlots)
    \/ Lifecycle
    \/ Tick

SpecBooking == Init /\ [][NextBooking]_vars

\* Bookings and lifecycle requests at 09:00 of day 0 for 12:00, 13:00 and 13:30
\* (12:00 and 13:30 are a dining window apart, 13:00 lies within the window of
\* both), with availability forecasts between them
ForecastSlots == {<<0, T1200>>, <<0, T1300>>, <<0, T1330>>}

NextForecast ==
    \/ CreateIn(ForecastSlots)
    \/ Lifecycle
    \/ \E slot \in ForecastSlots, p \in PartySizes :
          CheckAvailabilityRequest(slot[1], slot[2], p)
    \/ \E p \in PartySizes : GetAvailableSlots(0, p)

SpecForecast == Init /\ [][NextForecast]_vars

\* The role of a signed-in user (userSchema role, default customer)
AdminUser == "a1"
OtherCustomer == "u2"

Role(user) ==
    CASE user = StaffUser -> "staff"
      [] user = AdminUser -> "admin"
      [] OTHER            -> "customer"

\* PATCH /api/reservations/:id/cancel as routed: router.use(protect) and
\* router.use(isStaff) run before cancelReservation, which looks the
\* reservation up with the owner filter when the requester is a customer
CancelRoute(requester, id, reason) ==
    IF Role(requester) \notin {"admin", "staff"}
    THEN /\ response' = Reply("cancel", 403)
         /\ UNCHANGED <<reservations, settings, now, inflight, users, shiftVars, settingsCollection>>
    ELSE IF Role(requester) = "customer" /\ reservations[id].user # requester
    THEN /\ response' = Reply("cancel", 404)
         /\ UNCHANGED <<reservations, settings, now, inflight, users, shiftVars, settingsCollection>>
    ELSE CancelReservation(id, reason, requester)

\* Bookings of customer u1 at 09:00 of day 0 for 10:00, 12:00 and 13:00,
\* confirmations, and cancel requests of the owner, another customer, a staff
\* member and an admin
Requesters == {"u1", OtherCustomer, StaffUser, AdminUser}
CancelSlots == {<<0, T1000>>, <<0, T1200>>, <<0, T1300>>}

NextCancel ==
    \/ CreateIn(CancelSlots)
    \/ \E id \in Ids : ConfirmReservation(id)
    \/ \E requester \in Requesters, id \in Ids : CancelRoute(requester, id, CancelReason)

SpecCancel == Init /\ [][NextCancel]_vars

\* Bookings by a signed-in customer and by a guest, at 09:00 of day 0, for 09:30
\* (too soon), 10:00 (exactly one hour ahead) and 12:00, with the lifecycle
\* requests
LoyaltyUsers == {"u1", NoUser}
LoyaltySlots == {<<0, T0930>>, <<0, T1000>>, <<0, T1200>>}

NextLoyalty ==
    \/ \E u \in LoyaltyUsers, slot \in LoyaltySlots, p \in PartySizes :
          CreateReservation(u, slot[1], slot[2], p)
    \/ Lifecycle

SpecLoyalty == Init /\ [][NextLoyalty]_vars

\* ------------------------------------------------------------------------
\* createReservation requests in flight together.  A request reads the
\* collection inside checkAvailability (the await of this.find) and writes it
\* later in Reservation.create: other requests may run between the two.
\* ------------------------------------------------------------------------
RaceSlots == {<<0, T1030>>, <<0, T1200>>, <<0, T1300>>}

\* lines 20-72: the time checks and the availability read of one request
BeginCreate(user, date, time, partySize) ==
    /\ Len(inflight) < MaxInflight
    /\ LET availabilityResult ==
               CheckAvailability(reservations, settings, date, time, partySize)
           request(pc) ==
               [user |-> user, date |-> date, time |-> time, partySize |-> partySize,
                availabilityResult |-> availabilityResult, pc |-> pc, created |-> 0]
       IN  IF TooSoon(date, time)
           THEN /\ inflight' = Append(inflight, request("rejected"))
                /\ response' = Reply("create", 400)
           ELSE IF ~availabilityResult.available
           THEN /\ inflight' = Append(inflight, request("rejected"))
                /\ response' = Response("create", 400, NoValue, <<>>, NoValue,
                                        availabilityResult)
           ELSE /\ inflight' = Append(inflight, request("checked"))
                /\ UNCHANGED response
    /\ UNCHANGED <<reservations, settings, now, users, shiftVars, settingsCollection>>

\* lines 74-119: Reservation.create (the pre-save hook repeats the time checks)
\* and the response
InsertReservation(k) ==
    /\ k \in DOMAIN inflight
    /\ inflight[k].pc = "checked"
    /\ Len(reservations) < MaxRes
    /\ LET r == inflight[k]
       IN  IF TooSoon(r.date, r.time)
           THEN /\ inflight' = [inflight EXCEPT ![k].pc = "rejected"]
                /\ response' = Reply("create", 400)
                /\ UNCHANGED <<reservations, users>>
           ELSE /\ reservations' =
                      Append(reservations,
                             NewReservation(r.user, r.date, r.time, r.partySize))
                /\ users' = AddLoyaltyPoints(users, r.user, CreatePoints, "bonus", NoValue)
                /\ inflight' = [inflight EXCEPT ![k].pc = "done",
                                                ![k].created = Len(reservations) + 1]
                /\ response' = Reply("create", 201)
    /\ UNCHANGED <<settings, now, shiftVars, settingsCollection>>

NextRace ==
    \/ \E u \in CreateUsers, slot \in RaceSlots, p \in PartySizes :
          BeginCreate(u, slot[1], slot[2], p)
    \/ \E k \in 1..MaxInflight : InsertReservation(k)
    \/ Tick

SpecRace == Init /\ [][NextRace]_vars

\* ------------------------------------------------------------------------
\* completeReservation requests in flight together.  A request loads the
\* reservation (findById), tests and saves it in complete(), loads the user
\* (User.findById) and saves it twice (addLoyaltyPoints, then the
\* totalReservations count); other requests may run at each await.  A save
\* writes the fields the request changed on its own copy of the document
\* (loyaltyPoints and totalReservations are set, the history entry is pushed).
\* ------------------------------------------------------------------------
\* const reservation = await Reservation.findById(req.params.id)
BeginComplete(id) ==
    /\ Len(inflight) < MaxInflight
    /\ IF ~Exists(id)
       THEN /\ inflight' = Append(inflight, [id |-> id, pc |-> "rejected",
                                             status |-> "", loyaltyPoints |-> NoValue,
                                             totalReservations |-> NoValue])
            /\ response' = Reply("complete", 404)
       ELSE /\ inflight' = Append(inflight, [id |-> id, pc |-> "loaded",
                                             status |-> reservations[id].status,
                                             loyaltyPoints |-> NoValue,
                                             totalReservations |-> NoValue])
            /\ UNCHANGED response
    /\ UNCHANGED <<reservations, settings, now, users, shiftVars, settingsCollection>>

\* await reservation.complete(): the status test on the loaded copy, the save
CompleteSave(k) ==
    /\ k \in DOMAIN inflight
    /\ inflight[k].pc = "loaded"
    /\ IF inflight[k].status # "seated"
       THEN /\ inflight' = [inflight EXCEPT ![k].pc = "rejected"]
            /\ response' = Reply("complete", 400)
            /\ UNCHANGED reservations
       ELSE /\ reservations' =
                  [reservations EXCEPT ![inflight[k].id].status = "completed",
                                       ![inflight[k].id].completedAt = now]
            /\ inflight' = [inflight EXCEPT ![k].pc = "completed",
                                            ![k].status = "completed"]
            /\ UNCHANGED response
    /\ UNCHANGED <<settings, now, users, shiftVars, settingsCollection>>

\* const user = await User.findById(reservation.user)
FindUser(k) ==
    /\ k \in DOMAIN inflight
    /\ inflight[k].pc = "completed"
    /\ LET user == reservations[inflight[k].id].user
       IN  IF user \notin DOMAIN users
           THEN /\ inflight' = [inflight EXCEPT ![k].pc = "done"]
                /\ response' = Reply("complete", 200)
           ELSE /\ inflight' =
                      [inflight EXCEPT
                          ![k].pc = "user",
                          ![k].loyaltyPoints = users[user].loyaltyPoints,
                          ![k].totalReservations = users[user].totalReservations]
                /\ UNCHANGED response
    /\ UNCHANGED <<reservations, settings, now, users, shiftVars, settingsCollection>>

\* await user.addLoyaltyPoints(20, "reservation", ..., reservation._id)
AwardPoints(k) ==
    /\ k \in DOMAIN inflight
    /\ inflight[k].pc = "user"
    /\ LET user == reservations[inflight[k].id].user
       IN  /\ users' =
                 [users EXCEPT
                     ![user].loyaltyPoints = inflight[k].loyaltyPoints + CompletePoints,
                     ![user].pointsHistory =
                         @ (+) SetToBag({[amount |-> CompletePoints,
                                          source |-> "reservation",
                                          relatedId |-> inflight[k].id]})]
           /\ inflight' =
                 [inflight EXCEPT
                     ![k].pc = "awarded",
                     ![k].loyaltyPoints = inflight[k].loyaltyPoints + CompletePoints]
    /\ UNCHANGED <<reservations, settings, now, response, shiftVars, settingsCollection>>

\* user.totalReservations = (user.totalReservations || 0) + 1; await user.save()
CountSave(k) ==
    /\ k \in DOMAIN inflight
    /\ inflight[k].pc = "awarded"
    /\ LET user == reservations[inflight[k].id].user
       IN  users' = [users EXCEPT
                        ![user].totalReservations = inflight[k].totalReservations + 1]
    /\ inflight' = [inflight EXCEPT ![k].pc = "done"]
    /\ response' = Reply("complete", 200)
    /\ UNCHANGED <<reservations, settings, now, shiftVars, settingsCollection>>

\* Bookings of customer u1 for 12:00, confirmations, check-ins and complete
\* requests in flight together
CompleteSlots == {<<0, T1200>>}

NextCompleteRace ==
    \/ CreateIn(CompleteSlots)
    \/ \E id \in Ids : ConfirmReservation(id)
    \/ \E id \in Ids : CheckInReservation(id, 1)
    \/ \E id \in 1..MaxRes : BeginComplete(id)
    \/ \E k \in 1..MaxInflight : CompleteSave(k)
    \/ \E k \in 1..MaxInflight : FindUser(k)
    \/ \E k \in 1..MaxInflight : AwardPoints(k)
    \/ \E k \in 1..MaxInflight : CountSave(k)

SpecCompleteRace == Init /\ [][NextCompleteRace]_vars

\* ------------------------------------------------------------------------
\* Settings.getSingleton, called by getSettings and updateSettings.  The
\* documents of the Settings collection are kept in settingsCollection, in the
\* order they were created; a caller reads the collection in findOne and writes
\* it later in create, and other callers may run between the two.
\* ------------------------------------------------------------------------
NewSettings(id) == [id |-> id, lastUpdatedBy |-> ""]

\* let settings = await this.findOne(), for a new request
GetSingletonFindOne(op, user) ==
    /\ Len(inflight) < MaxInflight
    /\ inflight' =
          Append(inflight,
                 IF settingsCollection = <<>>
                 THEN [op |-> op, user |-> user, pc |-> "create", settings |-> NoId]
                 ELSE [op |-> op, user |-> user, pc |-> "return",
                       settings |-> settingsCollection[1].id])
    /\ UNCHANGED <<reservations, settings, now, response, users, shiftVars,
                   settingsCollection>>

\* if (!settings) settings = await this.create({...})
GetSingletonCreate(k) ==
    /\ k \in DOMAIN inflight
    /\ inflight[k].pc = "create"
    /\ settingsCollection' =
          Append(settingsCollection, NewSettings(Len(settingsCollection) + 1))
    /\ inflight' = [inflight EXCEPT ![k].pc = "return",
                                    ![k].settings = Len(settingsCollection) + 1]
    /\ UNCHANGED <<reservations, settings, now, response, users, shiftVars>>

\* return settings: getSettings answers with the document, updateSettings and
\* resetSettings stamp lastUpdatedBy on it and save it
GetSingletonReturn(k) ==
    /\ k \in DOMAIN inflight
    /\ inflight[k].pc = "return"
    /\ settingsCollection' =
          IF inflight[k].op \in {"updateSettings", "resetSettings"}
          THEN [settingsCollection EXCEPT
                   ![inflight[k].settings].lastUpdatedBy = inflight[k].user]
          ELSE settingsCollection
    /\ inflight' = [inflight EXCEPT ![k].pc = "done"]
    /\ response' = Reply(inflight[k].op, 200)
    /\ UNCHANGED <<reservations, settings, now, users, shiftVars>>

NextSingleton ==
    \/ GetSingletonFindOne("getSettings", NoUser)
    \/ GetSingletonFindOne("updateSettings", AdminUser)
    \/ GetSingletonFindOne("resetSettings", AdminUser)
    \/ \E k \in 1..MaxInflight : GetSingletonCreate(k)
    \/ \E k \in 1..MaxInflight : GetSingletonReturn(k)

SpecSingleton == Init /\ [][NextSingleton]_vars

\* ------------------------------------------------------------------------
\* Shift documents and Shift.checkConflicts
\* ------------------------------------------------------------------------
ShiftStatuses == {"scheduled", "in-progress", "completed", "cancelled", "no-show"}
ActiveShiftStatuses == {"scheduled", "in-progress"}
Employees == {"e1", "e2"}

NewShift(employee, date, startTime, endTime) ==
    [employee |-> employee, date |-> date, startTime |-> startTime,
     endTime |-> endTime, status |-> "scheduled",
     actualStartTime |-> <<>>, actualEndTime |-> <<>>]

\* a < b on JavaScript strings: the first differing character decides, a proper
\* prefix is smaller (':' sorts after the digits, as Colon does)
RECURSIVE StringLess(_, _)
StringLess(a, b) ==
    IF b = <<>> THEN FALSE
    ELSE IF a = <<>> THEN TRUE
    ELSE IF Head(a) # Head(b) THEN Head(a) < Head(b)
    ELSE StringLess(Tail(a), Tail(b))

StringLessEq(a, b) == a = b \/ StringLess(a, b)

\* Mutant: only the first clause of the filter (the request starts inside the
\* stored window)
ConflictTestStartInside(startTime, endTime, shift) ==
    StringLessEq(shift.startTime, startTime) /\ StringLess(startTime, shift.endTime)

\* the filter of checkConflicts, on the time strings
ConflictTest(startTime, endTime, shift) ==
    \/ StringLessEq(shift.startTime, startTime) /\ StringLess(startTime, shift.endTime)
    \/ StringLess(shift.startTime, endTime) /\ StringLessEq(endTime, shift.endTime)
    \/ StringLessEq(startTime, shift.startTime) /\ StringLessEq(shift.endTime, endTime)

\* Mutant: excludeShiftId is ignored
CheckConflictsNoExclude(sh, employeeId, date, startTime, endTime, excludeShiftId) ==
    {id \in DOMAIN sh :
        /\ sh[id].employee = employeeId
        /\ sh[id].date = date
        /\ sh[id].status \in ActiveShiftStatuses
        /\ ConflictTest(startTime, endTime, sh[id])}

\* shiftSchema.statics.checkConflicts: the ids of the conflicting shifts
CheckConflicts(sh, employeeId, date, startTime, endTime, excludeShiftId) ==
    {id \in DOMAIN sh :
        /\ sh[id].employee = employeeId
        /\ sh[id].date = date
        /\ sh[id].status \in ActiveShiftStatuses
        /\ excludeShiftId # NoId => id # excludeShiftId
        /\ ConflictTest(startTime, endTime, sh[id])}

\* `${hours.padStart(2, "0")}:${minutes.padStart(2, "0")}` of an instant
FormatTime(instant) ==
    LET hours == (instant % MinutesPerDay) \div MinutesPerHour
        minutes == instant % MinutesPerHour
    IN  <<hours \div 10, hours % 10, Colon, minutes \div 10, minutes % 10>>

\* ------------------------------------------------------------------------
\* The shift endpoints
\* ------------------------------------------------------------------------
ShiftReply(op, code) == ShiftResponse(op, code, "", NoValue, <<>>, <<>>, NoId, {})

FreshShiftId == CHOOSE id \in 1..MaxShifts : id \notin DOMAIN shifts

\* POST /api/shifts
CreateShift(employee, date, startTime, endTime) ==
    /\ LET found == CheckConflicts(shifts, employee, date, startTime, endTime, NoId)
       IN  IF employee \notin Employees
           THEN /\ shiftResponse' = ShiftReply("createShift", 404)
                /\ UNCHANGED shifts
           ELSE IF found # {}
           THEN /\ shiftResponse' = ShiftResponse("createShift", 400, employee, date,
                                                  startTime, endTime, NoId, found)
                /\ UNCHANGED shifts
           ELSE /\ Cardinality(DOMAIN shifts) < MaxShifts
                /\ shifts' = (FreshShiftId :> NewShift(employee, date, startTime, endTime))
                                @@ shifts
                /\ shiftResponse' = ShiftResponse("createShift", 201, employee, date,
                                                  startTime, endTime, NoId, {})
    /\ UNCHANGED <<reservations, settings, now, response, inflight, users,
                   settingsCollection>>

\* updates.field || shift.field
Updated(updates, shift, field) ==
    IF field \in DOMAIN updates THEN updates[field] ELSE shift[field]

\* PUT /api/shifts/:id with body updates (a function of the fields it carries)
UpdateShift(id, updates) ==
    /\ IF id \notin DOMAIN shifts
       THEN /\ shiftResponse' = ShiftReply("updateShift", 404)
            /\ UNCHANGED shifts
       ELSE LET shift == shifts[id]
                checkEmployee == Updated(updates, shift, "employee")
                checkDate == Updated(updates, shift, "date")
                checkStart == Updated(updates, shift, "startTime")
                checkEnd == Updated(updates, shift, "endTime")
                checked == DOMAIN updates \cap {"date", "startTime", "endTime"} # {}
                found == IF checked
                         THEN CheckConflicts(shifts, checkEmployee, checkDate,
                                             checkStart, checkEnd, id)
                         ELSE {}
            IN  IF found # {}
                THEN /\ shiftResponse' = ShiftResponse("updateShift", 400, checkEmployee,
                                                       checkDate, checkStart, checkEnd,
                                                       id, found)
                     /\ UNCHANGED shifts
                ELSE /\ shifts' = [shifts EXCEPT
                                      ![id] = [field \in DOMAIN shift |->
                                                  Updated(updates, shift, field)]]
                     /\ shiftResponse' = ShiftResponse("updateShift", 200, checkEmployee,
                                                       checkDate, checkStart, checkEnd,
                                                       id, {})
    /\ UNCHANGED <<reservations, settings, now, response, inflight, users,
                   settingsCollection>>

\* DELETE /api/shifts/:id
DeleteShift(id) ==
    /\ IF id \notin DOMAIN shifts
       THEN /\ shiftResponse' = ShiftReply("deleteShift", 404)
            /\ UNCHANGED shifts
       ELSE IF shifts[id].status \in {"in-progress", "completed"}
       THEN /\ shiftResponse' = ShiftReply("deleteShift", 400)
            /\ UNCHANGED shifts
       ELSE /\ shifts' = [j \in DOMAIN shifts \ {id} |-> shifts[j]]
            /\ shiftResponse' = ShiftReply("deleteShift", 200)
    /\ UNCHANGED <<reservations, settings, now, response, inflight, users,
                   settingsCollection>>

\* Mutant: clock-in does not look at the status
ClockInAnyStatus(id) ==
    /\ IF id \notin DOMAIN shifts
       THEN /\ shiftResponse' = ShiftReply("clockIn", 404)
            /\ UNCHANGED shifts
       ELSE /\ shifts' = [shifts EXCEPT ![id].actualStartTime = FormatTime(now),
                                        ![id].status = "in-progress"]
            /\ shiftResponse' = ShiftReply("clockIn", 200)
    /\ UNCHANGED <<reservations, settings, now, response, inflight, users,
                   settingsCollection>>

\* POST /api/shifts/:id/clock-in
ClockIn(id) ==
    /\ IF id \notin DOMAIN shifts
       THEN /\ shiftResponse' = ShiftReply("clockIn", 404)
            /\ UNCHANGED shifts
       ELSE IF shifts[id].status # "scheduled"
       THEN /\ shiftResponse' = ShiftReply("clockIn", 400)
            /\ UNCHANGED shifts
       ELSE /\ shifts' = [shifts EXCEPT ![id].actualStartTime = FormatTime(now),
                                        ![id].status = "in-progress"]
            /\ shiftResponse' = ShiftReply("clockIn", 200)
    /\ UNCHANGED <<reservations, settings, now, response, inflight, users,
                   settingsCollection>>

\* POST /api/shifts/:id/clock-out
ClockOut(id) ==
    /\ IF id \notin DOMAIN shifts
       THEN /\ shiftResponse' = ShiftReply("clockOut", 404)
            /\ UNCHANGED shifts
       ELSE IF shifts[id].status # "in-progress"
       THEN /\ shiftResponse' = ShiftReply("clockOut", 400)
            /\ UNCHANGED shifts
       ELSE /\ shifts' = [shifts EXCEPT ![id].actualEndTime = FormatTime(now),
                                        ![id].status = "completed"]
            /\ shiftResponse' = ShiftReply("clockOut", 200)
    /\ UNCHANGED <<reservations, settings, now, response, inflight, users,
                   settingsCollection>>

\* The shift endpoints that write, for two employees on two dates, with the
\* windows 09:00-13:00, 12:30-16:00 (overlapping the first) and 13:00-17:00
\* (touching the first)
ShiftDates == {0, 1}
ShiftWindows == {<<T0900, T1300>>, <<T1230, T1600>>, <<T1300, T1700>>}
ShiftIds == 1..MaxShifts

NextShift ==
    \/ \E e \in Employees, d \in ShiftDates, w \in ShiftWindows :
          CreateShift(e, d, w[1], w[2])
    \/ \E id \in ShiftIds, w \in ShiftWindows :
          UpdateShift(id, ("startTime" :> w[1]) @@ ("endTime" :> w[2]))
    \/ \E id \in ShiftIds, d \in ShiftDates : UpdateShift(id, "date" :> d)
    \/ \E id \in ShiftIds, e \in Employees : UpdateShift(id, "employee" :> e)
    \/ \E id \in ShiftIds, st \in {"scheduled", "cancelled"} :
          UpdateShift(id, "status" :> st)
    \/ \E id \in ShiftIds : ClockIn(id)
    \/ \E id \in ShiftIds : ClockOut(id)
    \/ \E id \in ShiftIds : DeleteShift(id)

SpecShift == Init /\ [][NextShift]_vars

\* ------------------------------------------------------------------------
\* createShift requests in flight together.  A request reads the collection
\* inside Shift.checkConflicts (the await of this.find) and writes it later in
\* Shift.create: other requests may run between the two.
\* ------------------------------------------------------------------------
\* lines 22-50: the employee lookup and the conflict read of one request
BeginCreateShift(employee, date, startTime, endTime) ==
    /\ Len(inflight) < MaxInflight
    /\ LET found == CheckConflicts(shifts, employee, date, startTime, endTime, NoId)
           request(pc) ==
               [employee |-> employee, date |-> date, startTime |-> startTime,
                endTime |-> endTime, seen |-> DOMAIN shifts, conflicts |-> found,
                pc |-> pc, created |-> NoId]
       IN  IF employee \notin Employees
           THEN /\ inflight' = Append(inflight, request("rejected"))
                /\ shiftResponse' = ShiftReply("createShift", 404)
           ELSE IF found # {}
           THEN /\ inflight' = Append(inflight, request("rejected"))
                /\ shiftResponse' = ShiftResponse("createShift", 400, employee, date,
                                                  startTime, endTime, NoId, found)
           ELSE /\ inflight' = Append(inflight, request("checked"))
                /\ UNCHANGED shiftResponse
    /\ UNCHANGED <<reservations, settings, now, response, users, shifts,
                   settingsCollection>>

\* lines 52-74: Shift.create and the response
InsertShift(k) ==
    /\ k \in DOMAIN inflight
    /\ inflight[k].pc = "checked"
    /\ Cardinality(DOMAIN shifts) < MaxShifts
    /\ LET r == inflight[k]
       IN  /\ shifts' = (FreshShiftId :>
                            NewShift(r.employee, r.date, r.startTime, r.endTime))
                         @@ shifts
           /\ inflight' = [inflight EXCEPT ![k].pc = "done",
                                           ![k].created = FreshShiftId]
           /\ shiftResponse' = ShiftResponse("createShift", 201, r.employee, r.date,
                                             r.startTime, r.endTime, NoId, {})
    /\ UNCHANGED <<reservations, settings, now, response, users,
                   settingsCollection>>

NextShiftRace ==
    \/ \E e \in Employees, d \in ShiftDates, w \in ShiftWindows :
          BeginCreateShift(e, d, w[1], w[2])
    \/ \E k \in 1..MaxInflight : InsertShift(k)

SpecShiftRace == Init /\ [][NextShiftRace]_vars

\* POST /api/shifts/check-conflicts
CheckConflictsRequest(employeeId, date, startTime, endTime, excludeShiftId) ==
    /\ IF employeeId = "" \/ startTime = <<>> \/ endTime = <<>>
       THEN shiftResponse' = ShiftReply("checkConflicts", 400)
       ELSE shiftResponse' =
               ShiftResponse("checkConflicts", 200, employeeId, date, startTime,
                             endTime, excludeShiftId,
                             CheckConflicts(shifts, employeeId, date, startTime,
                                            endTime, excludeShiftId))
    /\ UNCHANGED <<reservations, settings, now, response, inflight, users, shifts,
                   settingsCollection>>

\* The windows asked about and stored: the three of ShiftWindows, 10:00-12:00,
\* two written with one-digit hours (9:00-10:00, 8:00-12:00) and two that end
\* before they start (14:00-09:00, 16:00-10:00)
ConflictWindows ==
    ShiftWindows \cup
    {<<T1000, T1200>>, <<T900, T1000>>, <<T800, T1200>>,
     <<T1400, T0900>>, <<T1600, T1000>>}

StoredShift(employee, date, window, status) ==
    [NewShift(employee, date, window[1], window[2]) EXCEPT !.status = status]

\* Stored shifts: every window and status for employee e1 on day 0, and one
\* shift of another employee and one of another day
StoredShifts ==
    {StoredShift("e1", 0, w, st) :
        w \in ConflictWindows, st \in {"scheduled", "in-progress", "completed"}}
    \cup {StoredShift("e2", 0, <<T0900, T1300>>, "scheduled"),
          StoredShift("e1", 1, <<T0900, T1300>>, "scheduled")}

StoredShiftCollections ==
    UNION {[1..n -> StoredShifts] : n \in 0..MaxStoredShifts}

InitConflict ==
    /\ shifts \in StoredShiftCollections
    /\ reservations = <<>>
    /\ settings = SettingsPlain
    /\ now = StartOfClock
    /\ response = NoResponse
    /\ inflight = <<>>
    /\ users = NoPoints
    /\ shiftResponse = NoShiftResponse
    /\ settingsCollection = <<>>

NextConflict ==
    \/ \E w \in ConflictWindows, x \in 0..MaxStoredShifts :
          CheckConflictsRequest("e1", 0, w[1], w[2], x)
    \/ \E e \in Employees, d \in ShiftDates :
          CheckConflictsRequest(e, d, T0900, T1300, NoId)
    \/ CheckConflictsRequest("e1", 0, <<>>, T1300, NoId)

SpecConflict == InitConflict /\ [][NextConflict]_vars

\* ========================================================================
\* Properties of the availability check (SpecAvail)
\* ========================================================================
AvailabilityAnswered ==
    /\ response.op = "checkAvailability"
    /\ response.code = 200

\* Two half-open intervals [s1, e1) and [s2, e2) intersect
HalfOpenOverlap(s1, e1, s2, e2) == s1 < e2 /\ s2 < e1

\* The dining duration and the capacity the settings give a slot
SettingsDiningDuration ==
    IF settings.present THEN settings.diningDuration ELSE DefaultDiningDuration

GlobalMaxCapacity ==
    IF settings.present THEN settings.maxCapacity ELSE DefaultMaxCapacity

EffectiveCapacity(date, time) ==
    IF <<date, time>> \in DOMAIN settings.slotCapacityOverrides
    THEN settings.slotCapacityOverrides[<<date, time>>]
    ELSE GlobalMaxCapacity

\* The active reservations of a date whose dining window intersects the window
\* of a requested time
OverlappingActive(date, time) ==
    {i \in DOMAIN reservations :
        /\ reservations[i].date = date
        /\ reservations[i].status \in {"pending", "confirmed", "seated"}
        /\ HalfOpenOverlap(TimeInMinutes(reservations[i].time),
                           TimeInMinutes(reservations[i].time) + SettingsDiningDuration,
                           TimeInMinutes(time),
                           TimeInMinutes(time) + SettingsDiningDuration)}

ReservedFor(date, time) == SumPartySize(reservations, OverlappingActive(date, time))

\* C1: for a date and time that are not blocked, checkAvailability answers
\* available exactly when the party sizes of the active reservations of that
\* date whose [time, time + diningDuration) window intersects the requested
\* window, plus the requested party size, do not exceed the slot's effective
\* capacity; the reservedCapacity it reports is that sum.
C1_AvailableIffCapacity ==
    (AvailabilityAnswered /\ ~response.result.blocked) =>
        /\ response.result.reservedCapacity = ReservedFor(response.date, response.time)
        /\ response.result.available =
             (ReservedFor(response.date, response.time) + response.partySize
                 <= EffectiveCapacity(response.date, response.time))

\* An answer that counts an overlapping reservation while an active reservation
\* of the same date merely touches the requested window and is left out
C1_Witness ==
    /\ AvailabilityAnswered
    /\ ~response.result.blocked
    /\ response.result.available
    /\ response.result.reservedCapacity >= 1
    /\ \E i \in DOMAIN reservations :
          /\ reservations[i].date = response.date
          /\ reservations[i].status \in ActiveStatuses
          /\ Abs(TimeInMinutes(reservations[i].time) - TimeInMinutes(response.time))
                = SettingsDiningDuration

\* C4: on a date listed in blockedDates checkAvailability answers unavailable
\* and blocked for every time and party size, whatever the overrides, the
\* blocked slots and the stored reservations are.
C4_BlockedDateDominates ==
    (AvailabilityAnswered /\ response.date \in settings.blockedDates) =>
        /\ ~response.result.available
        /\ response.result.blocked

\* A request on a blocked date for a slot that has an override larger than the
\* party, with an active reservation stored on that date
C4_Witness ==
    /\ AvailabilityAnswered
    /\ response.date \in settings.blockedDates
    /\ <<response.date, response.time>> \in DOMAIN settings.slotCapacityOverrides
    /\ settings.slotCapacityOverrides[<<response.date, response.time>>] > response.partySize
    /\ response.date \in DOMAIN settings.blockedSlots
    /\ \E i \in DOMAIN reservations :
          /\ reservations[i].date = response.date
          /\ reservations[i].status \in ActiveStatuses
    /\ response.result.blocked

\* C5: on a date that is not blocked, a time listed in blockedSlots[date] is
\* answered unavailable and blocked with capacity 0, override or not; any other
\* time is answered with maxCapacity equal to the slot's override when the key
\* exists (an override of 0 included) and to the global maxCapacity otherwise,
\* and that capacity is the one the party is measured against.
C5_CapacityPolicyOrder ==
    (AvailabilityAnswered /\ response.date \notin settings.blockedDates) =>
        IF /\ response.date \in DOMAIN settings.blockedSlots
           /\ response.time \in settings.blockedSlots[response.date]
        THEN /\ ~response.result.available
             /\ response.result.blocked
             /\ response.result.maxCapacity = 0
        ELSE /\ ~response.result.blocked
             /\ response.result.maxCapacity =
                  EffectiveCapacity(response.date, response.time)
             /\ response.result.available =
                  (response.result.reservedCapacity + response.partySize
                      <= EffectiveCapacity(response.date, response.time))

\* A slot overridden to 0 is answered with capacity 0 and is not blocked
C5_Witness ==
    /\ AvailabilityAnswered
    /\ response.date \notin settings.blockedDates
    /\ <<response.date, response.time>> \in DOMAIN settings.slotCapacityOverrides
    /\ settings.slotCapacityOverrides[<<response.date, response.time>>] = 0
    /\ response.result.maxCapacity = 0
    /\ ~response.result.blocked
    /\ ~response.result.available

\* C7: for a fixed slot, settings and stored reservations, a slot answered
\* available for party size P is available for every party size Q, 1 <= Q < P.
C7_CapacityMonotone ==
    (AvailabilityAnswered /\ response.result.available) =>
        \A q \in 1..(response.partySize - 1) :
            CheckAvailability(reservations, settings,
                              response.date, response.time, q).available

\* A party of two is offered a slot in which reservations are already counted
C7_Witness ==
    /\ AvailabilityAnswered
    /\ response.result.available
    /\ response.partySize >= 2
    /\ response.result.reservedCapacity >= 1

\* ========================================================================
\* Properties of booking (SpecBooking, SpecRace)
\* ========================================================================
\* The dining window [time, time + diningDuration) of an active reservation,
\* as instants, contains the minute
WindowContains(r, minute) ==
    /\ r.status \in ActiveStatuses
    /\ DateTime(r.date, r.time) <= minute
    /\ minute < DateTime(r.date, r.time) + SettingsDiningDuration

\* The seats taken at a minute
LoadAt(minute) ==
    SumPartySize(reservations,
                 {i \in DOMAIN reservations : WindowContains(reservations[i], minute)})

\* The seats taken at a minute by the reservations of one date
LoadOfDateAt(date, minute) ==
    SumPartySize(reservations,
                 {i \in DOMAIN reservations :
                     /\ reservations[i].date = date
                     /\ WindowContains(reservations[i], minute)})

\* The load only rises where a window starts, so these are the minutes at
\* which it is largest
WindowStarts ==
    {DateTime(reservations[i].date, reservations[i].time) : i \in DOMAIN reservations}

PassedCheck(request) == request.pc \in {"checked", "done"}

\* C3: two createReservation requests for overlapping slots can be in flight
\* together: each reads the slot as available before either writes and each is
\* stored.  Every stored reservation was written by a request whose own
\* read fitted its party into the capacity (reservedCapacity + partySize <=
\* maxCapacity at the read), and nothing is checked again at the write; the
\* over-booked state this allows is C3_Witness.
C3_EachRequestPassedItsOwnCheck ==
    /\ \A k \in DOMAIN inflight :
          PassedCheck(inflight[k]) =>
              /\ inflight[k].availabilityResult.available
              /\ inflight[k].availabilityResult.reservedCapacity + inflight[k].partySize
                    <= inflight[k].availabilityResult.maxCapacity
    /\ \A i \in DOMAIN reservations :
          \E k \in DOMAIN inflight :
              /\ inflight[k].pc = "done"
              /\ inflight[k].created = i
              /\ inflight[k].date = reservations[i].date
              /\ inflight[k].time = reservations[i].time
              /\ inflight[k].partySize = reservations[i].partySize

\* Two stored reservations whose requests both read an empty slot, and a
\* minute at which they take more seats than maxCapacity
C3_Witness ==
    \E k1, k2 \in DOMAIN inflight :
        /\ k1 # k2
        /\ inflight[k1].pc = "done"
        /\ inflight[k2].pc = "done"
        /\ inflight[k1].availabilityResult.reservedCapacity = 0
        /\ inflight[k2].availabilityResult.reservedCapacity = 0
        /\ inflight[k1].date = inflight[k2].date
        /\ WithinDiningWindow(inflight[k1].time, inflight[k2].time, SettingsDiningDuration)
        /\ \E minute \in WindowStarts : LoadAt(minute) > GlobalMaxCapacity

ReportedReserved(res, slot) ==
    CheckAvailability(res, settings, slot[1], slot[2], 1).reservedCapacity

\* The reservation's window intersects the window of the slot
OverlapsSlot(r, slot) ==
    /\ r.date = slot[1]
    /\ HalfOpenOverlap(TimeInMinutes(r.time),
                       TimeInMinutes(r.time) + SettingsDiningDuration,
                       TimeInMinutes(slot[2]),
                       TimeInMinutes(slot[2]) + SettingsDiningDuration)

\* C6: a reservation that is completed, cancelled or no-show is never counted
\* in checkAvailability's reservedCapacity.  When an overlapping active
\* reservation of party size k is cancelled, marked no-show or completed, the
\* reservedCapacity reported for the slot drops by exactly k, and no later
\* operation on that reservation changes it.
C6_TerminalNeverCounted ==
    /\ [](\A slot \in LifeSlots :
            ReportedReserved(reservations, slot) =
                SumPartySize(reservations,
                             {i \in DOMAIN reservations :
                                 /\ reservations[i].status \notin TerminalStatuses
                                 /\ OverlapsSlot(reservations[i], slot)}))
    /\ [][\A slot \in LifeSlots : \A i \in DOMAIN reservations :
             /\ ( /\ reservations[i].status \notin TerminalStatuses
                  /\ reservations'[i].status \in TerminalStatuses
                  /\ OverlapsSlot(reservations[i], slot) )
                => ReportedReserved(reservations', slot) =
                      ReportedReserved(reservations, slot) - reservations[i].partySize
             /\ ( /\ reservations[i].status \in TerminalStatuses
                  /\ reservations'[i] # reservations[i] )
                => ReportedReserved(reservations', slot) =
                      ReportedReserved(reservations, slot)
         ]_vars

\* A reservation has just become terminal next to an active one of an
\* overlapping slot, and only the active one is reported
C6_Witness ==
    /\ response.op \in {"cancel", "noShow", "complete"}
    /\ response.code = 200
    /\ \E i, j \in DOMAIN reservations :
          /\ reservations[i].status \in TerminalStatuses
          /\ reservations[j].status \in ActiveStatuses
          /\ reservations[i].time # reservations[j].time
          /\ OverlapsSlot(reservations[j], <<reservations[i].date, reservations[i].time>>)
          /\ ReportedReserved(reservations, <<reservations[i].date, reservations[i].time>>)
                = reservations[j].partySize

\* The lifecycle requests, the status each one asks for and the step each one
\* takes
LifecycleOps == {"confirm", "checkIn", "complete", "cancel", "noShow"}

Target(op) ==
    CASE op = "confirm"  -> "confirmed"
      [] op = "checkIn"  -> "seated"
      [] op = "complete" -> "completed"
      [] op = "cancel"   -> "cancelled"
      [] op = "noShow"   -> "no-show"

Requested(op, id) ==
    CASE op = "confirm"  -> ConfirmReservation(id)
      [] op = "checkIn"  -> \E n \in TableNumbers : CheckInReservation(id, n)
      [] op = "complete" -> CompleteReservation(id)
      [] op = "cancel"   -> CancelReservation(id, CancelReason, StaffUser)
      [] op = "noShow"   -> MarkNoShow(id, StaffUser)

\* The status edges of the transition table
TableEdges ==
    {<<"pending", "confirmed">>, <<"confirmed", "seated">>, <<"seated", "completed">>,
     <<"pending", "cancelled">>, <<"confirmed", "cancelled">>,
     <<"confirmed", "no-show">>, <<"seated", "no-show">>}

\* The edges the lifecycle methods allow: canBeCancelled refuses the terminal
\* statuses only, so a seated reservation can be cancelled
MethodEdges == TableEdges \cup {<<"seated", "cancelled">>}

\* Statuses change along the edges only, and a request for a transition that is
\* not an edge is rejected and changes nothing
OnlyAlong(edges) ==
    /\ \A i \in DOMAIN reservations :
          reservations'[i].status # reservations[i].status =>
              <<reservations[i].status, reservations'[i].status>> \in edges
    /\ \A id \in Ids, op \in LifecycleOps :
          ( /\ Requested(op, id)
            /\ <<reservations[id].status, Target(op)>> \notin edges )
          => /\ response'.code = 400
             /\ reservations' = reservations

\* C8 as stated: a reservation's status only ever changes along
\* pending -> confirmed, confirmed -> seated, seated -> completed,
\* pending -> cancelled, confirmed -> cancelled, confirmed -> no-show and
\* seated -> no-show; a request for any other transition (cancel on a seated
\* reservation, no-show on a pending one) is rejected.
C8_OnlyTableEdges == [][OnlyAlong(TableEdges)]_vars

\* C8: a reservation's status only ever changes along the edges of the table
\* or along seated -> cancelled; a request for any other transition (no-show
\* on a pending reservation, cancel on a completed one) is rejected and changes
\* nothing.
C8_OnlyMethodEdges == [][OnlyAlong(MethodEdges)]_vars

\* A reservation that had been checked in has just been cancelled
C8_Witness ==
    /\ response = Reply("cancel", 200)
    /\ \E i \in DOMAIN reservations :
          /\ reservations[i].status = "cancelled"
          /\ reservations[i].checkedInAt # NoValue
          /\ reservations[i].cancelledAt # NoValue

\* C9: a confirm, check-in, complete, cancel or no-show request either
\* succeeds, leaving the reservation in the requested status and every other
\* reservation as it was, or fails with an error and leaves the stored
\* reservations exactly as they were; a check-in on a pending reservation fails,
\* and a pending reservation has no tableNumber and no checkedInAt.
C9_TransitionClosure ==
    [][/\ \A id \in Ids, op \in LifecycleOps :
             Requested(op, id) =>
                 \/ /\ response'.code = 200
                    /\ reservations'[id].status = Target(op)
                    /\ reservations[id].status # Target(op)
                    /\ Len(reservations') = Len(reservations)
                    /\ \A j \in Ids : j # id => reservations'[j] = reservations[j]
                 \/ /\ response'.code >= 400
                    /\ reservations' = reservations
       /\ \A id \in Ids :
             ( /\ reservations[id].status = "pending"
               /\ \E n \in TableNumbers : CheckInReservation(id, n) )
             => /\ response'.code = 400
                /\ reservations' = reservations
       /\ \A i \in DOMAIN reservations' :
             reservations'[i].status = "pending" =>
                 /\ reservations'[i].tableNumber = NoValue
                 /\ reservations'[i].checkedInAt = NoValue
      ]_vars

\* A check-in with a table number has just failed while every stored
\* reservation is pending, without a table
C9_Witness ==
    /\ response = Reply("checkIn", 400)
    /\ Len(reservations) >= 1
    /\ \A i \in DOMAIN reservations :
          /\ reservations[i].status = "pending"
          /\ reservations[i].tableNumber = NoValue
          /\ reservations[i].checkedInAt = NoValue

\* C10: once a reservation is completed, cancelled or no-show, no later
\* operation changes its status or any other of its fields (date, time,
\* partySize, notes).
C10_TerminalImmutable ==
    [][\A i \in DOMAIN reservations :
          reservations[i].status \in TerminalStatuses =>
              reservations'[i] = reservations[i]
      ]_vars

\* ========================================================================
\* Properties of cancellation, creation and update (SpecBooking, Spec)
\* ========================================================================
\* C11: a cancel request on a pending or confirmed reservation whose date-time
\* is 120 minutes or less from now is answered with an error and leaves the
\* reservation (status, cancelledAt, cancelledBy, cancellationReason) as it
\* was; with more than 120 minutes remaining it sets status cancelled and
\* records reason, cancelledAt and cancelledBy.
C11_CancelCutoff ==
    [][\A id \in Ids :
          ( /\ CancelReservation(id, CancelReason, StaffUser)
            /\ reservations[id].status \in {"pending", "confirmed"} )
          => IF DateTime(reservations[id].date, reservations[id].time) - now <= 120
             THEN /\ response'.code = 400
                  /\ reservations' = reservations
             ELSE /\ response'.code = 200
                  /\ reservations'[id].status = "cancelled"
                  /\ reservations'[id].cancellationReason = CancelReason
                  /\ reservations'[id].cancelledAt = now
                  /\ reservations'[id].cancelledBy = StaffUser
      ]_vars

\* A cancel has just been refused while every stored reservation is pending or
\* confirmed and exactly 120 minutes ahead
C11_Witness ==
    /\ response = Reply("cancel", 400)
    /\ Len(reservations) >= 1
    /\ \A i \in DOMAIN reservations :
          /\ reservations[i].status \in {"pending", "confirmed"}
          /\ DateTime(reservations[i].date, reservations[i].time) - now = 120
          /\ reservations[i].cancelledAt = NoValue
          /\ reservations[i].cancelledBy = ""

\* C12: createReservation stores a new reservation only if its date-time is
\* at least one hour after the current time and checkAvailability reported
\* available for its date, time and party size; the stored reservation is
\* pending; when either guard fails nothing is stored and no loyalty points are
\* awarded.
C12_CreateGuards ==
    [][/\ Len(reservations') > Len(reservations) =>
             LET r == reservations'[Len(reservations')]
             IN  /\ Len(reservations') = Len(reservations) + 1
                 /\ \A i \in DOMAIN reservations : reservations'[i] = reservations[i]
                 /\ DateTime(r.date, r.time) >= now + 60
                 /\ CheckAvailability(reservations, settings,
                                      r.date, r.time, r.partySize).available
                 /\ r.status = "pending"
       /\ \A u \in LoyaltyUsers, slot \in LoyaltySlots, p \in PartySizes :
             ( /\ CreateReservation(u, slot[1], slot[2], p)
               /\ \/ DateTime(slot[1], slot[2]) < now + 60
                  \/ ~CheckAvailability(reservations, settings,
                                        slot[1], slot[2], p).available )
             => /\ reservations' = reservations
                /\ users' = users
                /\ response'.code = 400
      ]_vars

\* A request has just been refused for capacity, a reservation made exactly one
\* hour ahead is stored, and the customer holds the points of the stored
\* bookings only
C12_Witness ==
    /\ response.op = "create"
    /\ response.code = 400
    /\ response.result.reservedCapacity >= 1
    /\ ~response.result.available
    /\ \E i \in DOMAIN reservations :
          DateTime(reservations[i].date, reservations[i].time) = now + 60
    /\ \A i \in DOMAIN reservations :
          reservations[i].status = "pending" /\ reservations[i].user = "u1"
    /\ users["u1"].loyaltyPoints = 10 * Len(reservations)

\* The pointsHistory entry of the completion of a reservation
CompletionAward(id) ==
    [amount |-> 20, source |-> "reservation", relatedId |-> id]

\* C13: a complete request that moves a reservation from seated to completed
\* sets completedAt and awards the owning user 20 points once; a complete
\* request on a reservation that is not seated awards nothing; no reservation
\* ever has more than one completion award, and only a completed one has any.
C13_OneCompletionAward ==
    /\ [](\A id \in Ids, u \in Accounts :
            /\ CopiesIn(CompletionAward(id), users[u].pointsHistory) <= 1
            /\ CopiesIn(CompletionAward(id), users[u].pointsHistory) = 1 =>
                  /\ reservations[id].status = "completed"
                  /\ reservations[id].user = u)
    /\ [][\A id \in Ids :
             CompleteReservation(id) =>
                 IF reservations[id].status = "seated"
                 THEN /\ reservations'[id].status = "completed"
                      /\ reservations'[id].completedAt = now
                      /\ \A u \in Accounts :
                            IF reservations[id].user = u
                            THEN /\ users'[u].loyaltyPoints = users[u].loyaltyPoints + 20
                                 /\ CopiesIn(CompletionAward(id), users'[u].pointsHistory) = 1
                                 /\ BagCardinality(users'[u].pointsHistory) =
                                       BagCardinality(users[u].pointsHistory) + 1
                            ELSE users'[u] = users[u]
                 ELSE /\ users' = users
                      /\ reservations' = reservations
         ]_vars

\* A second complete request on the customer's completed reservation has just
\* been refused, and the customer holds 10 points of the booking and 20 of the
\* completion
C13_Witness ==
    /\ response = Reply("complete", 400)
    /\ Len(reservations) = 1
    /\ reservations[1].status = "completed"
    /\ reservations[1].completedAt # NoValue
    /\ reservations[1].user = "u1"
    /\ users["u1"].loyaltyPoints = 30
    /\ CopiesIn(CompletionAward(1), users["u1"].pointsHistory) = 1

\* C14: an update of a non-terminal reservation to a date, time and party size
\* for which checkAvailability reports unavailable is rejected and leaves the
\* stored reservation unchanged, also when only the party size changes.
C14_UpdateRechecksAvailability ==
    [][\A id \in Ids, slot \in LifeSlots, p \in PartySizes :
          ( /\ UpdateReservation(id, slot[1], slot[2], p)
            /\ reservations[id].status \notin TerminalStatuses
            /\ ~CheckAvailability(reservations, settings, slot[1], slot[2], p).available )
          => /\ response'.code = 400
             /\ reservations' = reservations
      ]_vars

\* C15: an update of a reservation attempted when 2 hours or less remain
\* before its date-time is rejected and leaves the reservation unchanged.
C15_UpdateCutoff ==
    [][\A id \in Ids, slot \in LifeSlots, p \in PartySizes :
          ( /\ UpdateReservation(id, slot[1], slot[2], p)
            /\ DateTime(reservations[id].date, reservations[id].time) - now <= 120 )
          => /\ response'.code >= 400
             /\ reservations' = reservations
      ]_vars

\* C16: a cancel request on a pending or confirmed reservation more than 2
\* hours ahead succeeds when the requester is its owner or is staff or admin,
\* and is refused, leaving the reservation unchanged, when the requester is a
\* customer who does not own it.
C16_CancelAuthorization ==
    [][\A requester \in Requesters, id \in Ids :
          ( /\ CancelRoute(requester, id, CancelReason)
            /\ reservations[id].status \in {"pending", "confirmed"}
            /\ DateTime(reservations[id].date, reservations[id].time) - now > 120 )
          => IF \/ requester = reservations[id].user
                \/ Role(requester) \in {"staff", "admin"}
             THEN /\ response'.code = 200
                  /\ reservations'[id].status = "cancelled"
             ELSE /\ response'.code >= 400
                  /\ reservations' = reservations
      ]_vars

\* ========================================================================
\* Properties of the shift conflict check (SpecConflict, SpecShift)
\* ========================================================================
ConflictsAnswered ==
    /\ shiftResponse.op = "checkConflicts"
    /\ shiftResponse.code = 200

\* startTime < endTime as times of day
ProperWindow(startTime, endTime) == TimeInMinutes(startTime) < TimeInMinutes(endTime)

\* The windows of two shifts intersect as half-open minute intervals
WindowsOverlap(s1, e1, s2, e2) ==
    HalfOpenOverlap(TimeInMinutes(s1), TimeInMinutes(e1),
                    TimeInMinutes(s2), TimeInMinutes(e2))

\* C17: for windows with startTime < endTime, checkConflicts returns exactly
\* the employee's scheduled or in-progress shifts of the date, other than
\* excludeShiftId, whose window overlaps the requested one as half-open minute
\* intervals, for every time string the HH:MM pattern accepts (one- or
\* two-digit hours).
C17_ConflictsAreOverlaps ==
    ( /\ ConflictsAnswered
      /\ ProperWindow(shiftResponse.startTime, shiftResponse.endTime)
      /\ \A id \in DOMAIN shifts : ProperWindow(shifts[id].startTime, shifts[id].endTime) )
    => shiftResponse.conflicts =
          {id \in DOMAIN shifts :
              /\ shifts[id].employee = shiftResponse.employee
              /\ shifts[id].date = shiftResponse.date
              /\ shifts[id].status \in {"scheduled", "in-progress"}
              /\ id # shiftResponse.exclude
              /\ WindowsOverlap(shiftResponse.startTime, shiftResponse.endTime,
                                shifts[id].startTime, shifts[id].endTime)}

\* C18: after any sequence of createShift, updateShift, clockIn, clockOut and
\* deleteShift requests run one after another, no two stored shifts of the
\* same employee on the same date have overlapping [startTime, endTime)
\* windows.
C18_NoOverlappingShifts ==
    \A i, j \in DOMAIN shifts :
        ( /\ i # j
          /\ shifts[i].employee = shifts[j].employee
          /\ shifts[i].date = shifts[j].date )
        => ~WindowsOverlap(shifts[i].startTime, shifts[i].endTime,
                           shifts[j].startTime, shifts[j].endTime)

\* C19: checkConflicts never returns the shift named by excludeShiftId and
\* returns every other shift it would return without the exclusion; an update
\* is rejected for a conflict only when a shift other than the updated one
\* conflicts.
C19_SelfExclusion ==
    /\ \A id \in DOMAIN shifts, e \in Employees, d \in ShiftDates, w \in ShiftWindows :
          CheckConflicts(shifts, e, d, w[1], w[2], id) =
              CheckConflicts(shifts, e, d, w[1], w[2], NoId) \ {id}
    /\ (shiftResponse.op = "updateShift" /\ shiftResponse.code = 400) =>
          /\ shiftResponse.exclude \notin shiftResponse.conflicts
          /\ shiftResponse.conflicts # {}
          /\ shiftResponse.conflicts =
                CheckConflicts(shifts, shiftResponse.employee, shiftResponse.date,
                               shiftResponse.startTime, shiftResponse.endTime, NoId)
                   \ {shiftResponse.exclude}

\* An update has just been rejected for a conflict with another shift; the
\* updated shift's own stored window overlaps the requested one and is not
\* listed
C19_Witness ==
    /\ shiftResponse.op = "updateShift"
    /\ shiftResponse.code = 400
    /\ shiftResponse.exclude \in DOMAIN shifts
    /\ shiftResponse.exclude \notin shiftResponse.conflicts
    /\ shiftResponse.exclude \in
          CheckConflicts(shifts, shiftResponse.employee, shiftResponse.date,
                         shiftResponse.startTime, shiftResponse.endTime, NoId)

\* C20: for two windows A and B of the same employee and date, overnight
\* windows included, requesting A against a stored B reports a conflict
\* exactly when requesting B against a stored A does.
C20_ConflictSymmetry ==
    (ConflictsAnswered /\ shiftResponse.exclude = NoId) =>
        \A id \in DOMAIN shifts :
            ( /\ shifts[id].employee = shiftResponse.employee
              /\ shifts[id].date = shiftResponse.date
              /\ shifts[id].status \in ActiveShiftStatuses )
            => ( (id \in shiftResponse.conflicts) <=>
                 CheckConflicts(
                     1 :> NewShift(shiftResponse.employee, shiftResponse.date,
                                   shiftResponse.startTime, shiftResponse.endTime),
                     shifts[id].employee, shifts[id].date,
                     shifts[id].startTime, shifts[id].endTime, NoId) # {} )

\* ========================================================================
\* Properties of the shift lifecycle (SpecShift)
\* ========================================================================
\* C21: clockIn succeeds only on a scheduled shift, and then sets status
\* in-progress and stamps actualStartTime; clockOut succeeds only on an
\* in-progress shift, and then sets status completed and stamps actualEndTime;
\* in every other status the request is rejected and the stored shifts are
\* unchanged.
C21_ClockGuards ==
    [][\A id \in DOMAIN shifts :
          /\ ClockIn(id) =>
                IF shifts[id].status = "scheduled"
                THEN /\ shiftResponse'.code = 200
                     /\ shifts' = [shifts EXCEPT ![id].status = "in-progress",
                                                 ![id].actualStartTime = FormatTime(now)]
                     /\ shifts'[id].actualStartTime # <<>>
                ELSE /\ shiftResponse'.code = 400
                     /\ shifts' = shifts
          /\ ClockOut(id) =>
                IF shifts[id].status = "in-progress"
                THEN /\ shiftResponse'.code = 200
                     /\ shifts' = [shifts EXCEPT ![id].status = "completed",
                                                 ![id].actualEndTime = FormatTime(now)]
                     /\ shifts'[id].actualEndTime # <<>>
                ELSE /\ shiftResponse'.code = 400
                     /\ shifts' = shifts
      ]_vars

\* A clock-in has just been refused while every stored shift is completed and
\* carries both stamps
C21_Witness ==
    /\ shiftResponse = ShiftReply("clockIn", 400)
    /\ DOMAIN shifts # {}
    /\ \A id \in DOMAIN shifts :
          /\ shifts[id].status = "completed"
          /\ shifts[id].actualStartTime # <<>>
          /\ shifts[id].actualEndTime # <<>>

\* The createShift requests that have been written
Written == {k \in DOMAIN inflight : inflight[k].pc = "done"}

\* Two requests name overlapping windows of one employee and date
SameEmployeeOverlap(a, b) ==
    /\ a.employee = b.employee
    /\ a.date = b.date
    /\ WindowsOverlap(a.startTime, a.endTime, b.startTime, b.endTime)

\* C22: two createShift requests for overlapping windows of one employee and
\* date can be in flight together: each reads an empty conflict list before
\* either writes and each is stored.  Every stored shift was written by a
\* request whose own read listed no conflict, nothing is checked again at the
\* write, and two stored shifts overlap only when neither request had the other
\* one's shift in the collection it read; the overlapping state this allows is
\* C22_Witness.
C22_OverlapOnlyWhenUnseen ==
    /\ \A k \in DOMAIN inflight :
          /\ PassedCheck(inflight[k]) => inflight[k].conflicts = {}
          /\ inflight[k].pc = "rejected" => inflight[k].conflicts # {}
    /\ \A id \in DOMAIN shifts :
          \E k \in Written :
              /\ inflight[k].created = id
              /\ shifts[id] = NewShift(inflight[k].employee, inflight[k].date,
                                       inflight[k].startTime, inflight[k].endTime)
    /\ \A k1, k2 \in Written :
          (k1 # k2 /\ SameEmployeeOverlap(inflight[k1], inflight[k2])) =>
              /\ inflight[k1].created \notin inflight[k2].seen
              /\ inflight[k2].created \notin inflight[k1].seen

\* Two stored scheduled shifts of one employee and date with overlapping
\* windows, written by two requests that both read an empty collection
C22_Witness ==
    \E k1, k2 \in Written :
        /\ k1 # k2
        /\ inflight[k1].seen = {}
        /\ inflight[k2].seen = {}
        /\ SameEmployeeOverlap(shifts[inflight[k1].created], shifts[inflight[k2].created])
        /\ shifts[inflight[k1].created].status = "scheduled"
        /\ shifts[inflight[k2].created].status = "scheduled"

\* The forward steps of a shift's status
ShiftForwardEdges ==
    {<<"scheduled", "in-progress">>, <<"in-progress", "completed">>,
     <<"scheduled", "cancelled">>, <<"scheduled", "no-show">>,
     <<"in-progress", "cancelled">>, <<"in-progress", "no-show">>}

\* C23: across createShift, updateShift, clockIn and clockOut a shift's status
\* only moves forward along scheduled -> in-progress -> completed, or from
\* scheduled or in-progress to cancelled or no-show; a completed, cancelled or
\* no-show shift never returns to scheduled or in-progress.
C23_StatusForwardOnly ==
    [][\A id \in DOMAIN shifts \cap DOMAIN shifts' :
          shifts'[id].status # shifts[id].status =>
              <<shifts[id].status, shifts'[id].status>> \in ShiftForwardEdges
      ]_vars

\* ========================================================================
\* Properties of the notes and of the audit stamps (Spec)
\* ========================================================================
IsPrefix(a, b) == Len(a) <= Len(b) /\ SubSeq(b, 1, Len(a)) = a

C28_StampsAgreeWithStatus ==
    \A i \in DOMAIN reservations :
        LET r == reservations[i]
        IN  /\ r.status \in {"seated", "completed"} =>
                  /\ r.tableNumber # NoValue
                  /\ r.checkedInAt # NoValue
            /\ r.status = "completed" => r.completedAt # NoValue
            /\ r.status = "cancelled" =>
                  /\ r.cancelledAt # NoValue
                  /\ r.cancelledBy # ""
            /\ r.status \in {"pending", "confirmed"} =>
                  /\ r.checkedInAt = NoValue
                  /\ r.completedAt = NoValue
                  /\ r.cancelledAt = NoValue

\* A completed reservation with its three stamps next to one that was
\* cancelled after its check-in
C28_Witness ==
    \E i, j \in DOMAIN reservations :
        /\ reservations[i].status = "completed"
        /\ reservations[i].tableNumber # NoValue
        /\ reservations[i].checkedInAt # NoValue
        /\ reservations[i].completedAt # NoValue
        /\ reservations[j].status = "cancelled"
        /\ reservations[j].checkedInAt # NoValue
        /\ reservations[j].cancelledAt # NoValue
        /\ reservations[j].cancelledBy = StaffUser

\* ========================================================================
\* Properties of the availability forecast (SpecForecast, SpecSlots)
\* ========================================================================
\* C25: a checkAvailability call, through the check-availability endpoint or
\* the available-slots endpoint, changes neither the reservations nor the
\* settings nor anything else a later checkAvailability or createReservation
\* reads (the clock, the accounts); its answer is the value of the check on
\* the stored reservations and settings.
C25_ForecastReadOnly ==
    [][/\ \A slot \in ForecastSlots, p \in PartySizes :
             ( /\ response'.op = "checkAvailability"
               /\ CheckAvailabilityRequest(slot[1], slot[2], p) ) =>
                 /\ <<reservations, settings, now, inflight, users>>' =
                       <<reservations, settings, now, inflight, users>>
                 /\ response'.result =
                       CheckAvailability(reservations, settings, slot[1], slot[2], p)
       /\ \A p \in PartySizes :
             (response'.op = "availableSlots" /\ GetAvailableSlots(0, p)) =>
                 <<reservations, settings, now, inflight, users>>' =
                     <<reservations, settings, now, inflight, users>>
      ]_vars

\* A forecast has just offered the last seats of a slot in which one stored
\* reservation is counted, and that reservation is still the only one stored
C25_Witness ==
    /\ AvailabilityAnswered
    /\ response.result.available
    /\ response.result.reservedCapacity >= 1
    /\ response.result.remainingCapacity = response.partySize
    /\ Len(reservations) = 1

\* The slots of the day the available-slots endpoint walks through
SlotsOfDay == {AllSlots[k] : k \in DOMAIN AllSlots}

\* C29 as stated: after any sequence of createReservation and lifecycle
\* requests the reservedCapacity that checkAvailability reports is at most
\* maxCapacity for every slot of the day, so remainingCapacity equals
\* maxCapacity - reservedCapacity.
C29_ReservedWithinCapacity ==
    \A t \in SlotsOfDay :
        LET result == CheckAvailability(reservations, settings, 0, t, 1)
        IN  /\ result.reservedCapacity <= GlobalMaxCapacity
            /\ result.remainingCapacity = GlobalMaxCapacity - result.reservedCapacity

\* C29: after any sequence of createReservation and lifecycle requests the
\* remainingCapacity that checkAvailability reports for a slot of the day is
\* maxCapacity - reservedCapacity when that is positive and 0 otherwise, and
\* each createReservation that succeeds found reservedCapacity + partySize <=
\* maxCapacity for its own slot; the reservedCapacity of a slot that lies
\* between two reservations which do not overlap each other can exceed
\* maxCapacity.
C29_RemainingIsClamped ==
    /\ [](\A t \in SlotsOfDay :
            LET result == CheckAvailability(reservations, settings, 0, t, 1)
            IN  /\ result.maxCapacity = GlobalMaxCapacity
                /\ result.reservedCapacity = ReservedFor(0, t)
                /\ result.remainingCapacity =
                      IF GlobalMaxCapacity - result.reservedCapacity > 0
                      THEN GlobalMaxCapacity - result.reservedCapacity ELSE 0)
    /\ [][Len(reservations') > Len(reservations) =>
             LET r == reservations'[Len(reservations')]
             IN  ReservedFor(r.date, r.time) + r.partySize <= GlobalMaxCapacity
         ]_vars

\* Two active reservations a dining window apart fill the room one after the
\* other; the slot between them reports more reserved seats than the room has
\* and no remaining capacity
C29_Witness ==
    /\ \E i, j \in DOMAIN reservations :
          /\ reservations[i].status \in ActiveStatuses
          /\ reservations[j].status \in ActiveStatuses
          /\ ~WithinDiningWindow(reservations[i].time, reservations[j].time,
                                 SettingsDiningDuration)
    /\ \E t \in SlotsOfDay :
          LET result == CheckAvailability(reservations, settings, 0, t, 1)
          IN  /\ result.reservedCapacity > GlobalMaxCapacity
              /\ result.remainingCapacity = 0

\* C30: the available-slots endpoint lists a slot exactly when
\* checkAvailability reports it available for the date and party size; it
\* lists no slot of a blocked date and no slot whose remaining capacity is
\* smaller than the party.
C30_SlotsListedIffAvailable ==
    (response.op = "availableSlots" /\ response.code = 200) =>
        \A t \in SlotsOfDay :
            (\E k \in DOMAIN response.availableSlots : response.availableSlots[k] = t)
            <=> CheckAvailability(reservations, settings,
                                  response.date, t, response.partySize).available

\* ========================================================================
\* Properties of the settings singleton (SpecSingleton)
\* ========================================================================
\* C26: starting from an empty settings collection, under any interleaving of
\* getSingleton calls at most one Settings document exists, and every caller
\* that has received a document has received that one.
C26_SingleSettingsDocument ==
    /\ Len(settingsCollection) <= 1
    /\ \A k \in DOMAIN inflight :
          inflight[k].pc \in {"return", "done"} =>
              /\ Len(settingsCollection) = 1
              /\ inflight[k].settings = settingsCollection[1].id

\* ========================================================================
\* Properties of completion under concurrent requests (SpecCompleteRace)
\* ========================================================================
\* C27: under any interleaving of completeReservation requests for the same
\* seated reservation the owning user receives the 20-point completion award
\* of that reservation at most once, and totalReservations counts each
\* completed reservation at most once.
C27_OneAwardUnderRace ==
    /\ \A id \in Ids, u \in Accounts :
          CopiesIn(CompletionAward(id), users[u].pointsHistory) <= 1
    /\ \A u \in Accounts :
          users[u].totalReservations <=
              Cardinality({id \in Ids : /\ reservations[id].user = u
                                        /\ reservations[id].status = "completed"})

====
